---- MODULE Spec2Model ----
(***************************************************************************)
(* Storefront backend (src/backend/main.py): admin sessions, the login     *)
(* rate limiter, the image upload writer and the admin product handlers.   *)
(*                                                                         *)
(* Every request is run by a worker thread.  A handler is split into steps *)
(* at each access to shared state (the two module-level maps, the upload   *)
(* directory, the database), so the same step actions give                 *)
(*   Spec, SpecLogin, SpecLimiter, SpecUpload, SpecNames, SpecUpdate       *)
(*       requests handled one at a time, each to completion;               *)
(*   SpecSessionThreads, SpecLimiterThreads                                *)
(*       requests of two worker threads interleaved.                       *)
(* Time is in whole seconds.  The filesystem and the database are taken    *)
(* to work: open, write, close, remove, execute and commit succeed.        *)
(***************************************************************************)
EXTENDS Integers, Sequences, FiniteSets, TLC

VARIABLES
    now,             \* the value datetime.utcnow() returns, in seconds
    ticks,           \* how often the clock has advanced
    admin_sessions,  \* dict: token -> issue time
    login_attempts,  \* defaultdict(deque): client -> timestamps, oldest first
    issued,          \* tokens secrets.token_hex has returned so far
    revoked,         \* tokens admin_logout has removed from the store
    limited,         \* clients answered 429 since their last recorded attempt
    products,        \* table products: id -> row
    next_id,         \* the BIGSERIAL sequence of products.id
    files,           \* the upload directory: stored name -> bytes on disk
    th               \* worker threads: position and locals of the request

vars == <<now, ticks, admin_sessions, login_attempts, issued, revoked,
          limited, products, next_id, files, th>>

shared == <<now, ticks, admin_sessions, login_attempts, issued, revoked,
            limited, products, next_id, files>>

----------------------------------------------------------------------------
(* Configuration *)

ADMIN_PASSWORD == "secret"
SESSION_AGE == 7 * 24 * 60 * 60
LOGIN_WINDOW_SECONDS == 15 * 60
MAX_LOGIN_ATTEMPTS == 5
ALLOWED_IMAGE_CONTENT_TYPES == {"image/jpeg", "image/png", "image/webp"}
MAX_IMAGE_SIZE_BYTES == 5 * 1024 * 1024
CHUNK_SIZE == 1024 * 1024
MAX_NAME_LEN == 200
MAX_DESC_LEN == 2000
MAX_PRICE == 1000000

(* Bounds and input sets *)

MaxTicks == 2
MaxTokens == 2
MaxProducts == 2
MaxLen == 3

Threads == {1, 2}
Clients == {"10.0.0.1", "10.0.0.2"}
Tokens == 1..MaxTokens
NoCookie == 0
Cookies == Tokens \cup {NoCookie}
Passwords == {"", "secret", "hunter2"}

\* text is a sequence of characters
Str_png == <<"a", ".", "p", "n", "g">>
Str_traversal == <<".", ".", "/", "e", "t", "c", "/", "p", "w">>
Str_mug == <<" ", "m", "u", "g", " ">>
Filenames == {<<>>, Str_png, Str_traversal, <<"/">>}
Str_passwd_path ==
    <<".", ".", "/", ".", ".", "/", "e", "t", "c", "/",
      "p", "a", "s", "s", "w", "d">>
\* a letter, the dot, the separator, an allowed sign and a refused character
Alphabet == {"a", ".", "/", "_", " "}
\* every filename of 1..MaxLen characters, and the traversal of the example
NameInputs ==
    UNION {[1..n -> Alphabet] : n \in 1..MaxLen} \cup {Str_passwd_path}
ContentTypes == ALLOWED_IMAGE_CONTENT_TYPES \cup {"application/pdf"}
BodyLengths == {0, 1, MAX_IMAGE_SIZE_BYTES, MAX_IMAGE_SIZE_BYTES + 1,
                6 * 1024 * 1024}
Uploads ==
    [filename : Filenames, content_type : {"image/png", "application/pdf"},
     length : {1, 6 * 1024 * 1024}]
    \cup [filename : {Str_png}, content_type : ContentTypes,
          length : BodyLengths]
NoUpload == [filename |-> <<>>, content_type |-> "", length |-> 0]
GoodUpload == [filename |-> Str_png, content_type |-> "image/png", length |-> 1]
Names == {<<>>, <<" ">>, Str_mug}
Prices == {-5, 0, 1, 500000, MAX_PRICE, MAX_PRICE + 1}
\* product forms: every name with a fair price, every price with a fair name
Forms == [name : Names, price : {1}] \cup [name : {Str_mug}, price : Prices]
GoodForm == [name |-> Str_mug, price |-> 1]
\* every form with a fair upload, every upload with a fair form
ProductInputs ==
    [form : Forms, upload : {GoodUpload}]
    \cup [form : {GoodForm}, upload : Uploads]
ProductIds == 1..MaxProducts
\* forms of an update without a file: two that pass, one without a name
UpdateForms ==
    {[name |-> <<"a">>, price |-> 1, description |-> <<" ", "a">>],
     [name |-> Str_mug, price |-> 500000, description |-> <<>>],
     [name |-> <<" ">>, price |-> 1, description |-> <<>>]}

----------------------------------------------------------------------------
(* dict helpers *)

DictSet(d, k, v) == [x \in DOMAIN d \cup {k} |-> IF x = k THEN v ELSE d[x]]
DictPop(d, k) == [x \in DOMAIN d \ {k} |-> d[x]]
EmptyDict == [x \in {} |-> 0]

----------------------------------------------------------------------------
(* Worker threads *)

\* what validate_product_fields gives for fields it rejects
Rejected(msg) ==
    [ok |-> FALSE, detail |-> msg, name |-> <<>>, price |-> 0,
     description |-> <<>>]

\* no statement executed yet
NoPending ==
    [kind |-> "none", id |-> 0, name |-> <<>>, price |-> 0,
     description |-> <<>>, image |-> <<>>, set_image |-> FALSE]

IdleThread ==
    [pc |-> "idle", op |-> "none", cookie |-> NoCookie,
     client |-> "", password |-> "",
     rl_now |-> 0, token |-> NoCookie,
     product_id |-> 0, name |-> <<>>, price |-> 0, description |-> <<>>,
     has_image |-> FALSE, upload |-> NoUpload,
     clean |-> Rejected(""), path |-> <<>>, size |-> 0, consumed |-> 0,
     img_path |-> <<>>,
     conn |-> "none", tx |-> "none", closes |-> 0, pending |-> NoPending,
     status |-> 0, detail |-> "",
     \* history of the request, for stating properties
     recorded |-> FALSE, pw_compared |-> FALSE, authorized |-> FALSE,
     db_used |-> FALSE,
     t0 |-> 0, h0 |-> [c \in Clients |-> <<>>], l0 |-> {}, s0 |-> EmptyDict,
     p0 |-> EmptyDict, f0 |-> EmptyDict]

Start(t, r) ==
    th' = [th EXCEPT ![t] = [r EXCEPT !.t0 = now, !.h0 = login_attempts,
                                      !.l0 = limited,
                                      !.s0 = admin_sessions,
                                      !.p0 = products, !.f0 = files]]

Goto(t, label) == th' = [th EXCEPT ![t].pc = label]

Raise(t, code, msg) ==
    th' = [th EXCEPT ![t].pc = "done", ![t].status = code, ![t].detail = msg]

Done(r, code) == [r EXCEPT !.pc = "done", !.status = code]

AllIdle == \A t \in Threads : th[t].pc = "idle"

----------------------------------------------------------------------------
(* check_login_rate_limit *)

\* lines 153-154: now = utcnow(); attempts = login_attempts[client_ip]
RL_Now(t) ==
    /\ th[t].pc = "rl_now"
    /\ th' = [th EXCEPT ![t].rl_now = now, ![t].pc = "rl_test"]
    /\ UNCHANGED shared

\* line 157, left operand: while attempts and ...
RL_Test(t) ==
    /\ th[t].pc = "rl_test"
    /\ IF login_attempts[th[t].client] = <<>>
         THEN Goto(t, "rl_cap")
         ELSE Goto(t, "rl_peek")
    /\ UNCHANGED shared

\* the window taken in minutes where the difference is in seconds
Expired_minutes(stamp, at) == at - stamp > LOGIN_WINDOW_SECONDS * 60

Expired(stamp, at) == at - stamp > LOGIN_WINDOW_SECONDS

\* no attempt ever found out of the window
RL_Peek_keeps(t) ==
    /\ th[t].pc = "rl_peek"
    /\ IF login_attempts[th[t].client] = <<>>
         THEN Raise(t, 500, "IndexError")
         ELSE Goto(t, "rl_cap")
    /\ UNCHANGED shared

\* line 157, right operand: (now - attempts[0]).total_seconds() > WINDOW
RL_Peek(t) ==
    /\ th[t].pc = "rl_peek"
    /\ LET a == login_attempts[th[t].client] IN
         IF a = <<>>
           THEN Raise(t, 500, "IndexError")
           ELSE IF Expired(Head(a), th[t].rl_now)
                  THEN Goto(t, "rl_pop")
                  ELSE Goto(t, "rl_cap")
    /\ UNCHANGED shared

\* line 158: attempts.popleft()
RL_Pop(t) ==
    /\ th[t].pc = "rl_pop"
    /\ LET c == th[t].client
           a == login_attempts[c] IN
         IF a = <<>>
           THEN /\ Raise(t, 500, "IndexError")
                /\ UNCHANGED login_attempts
           ELSE /\ login_attempts' = [login_attempts EXCEPT ![c] = Tail(a)]
                /\ Goto(t, "rl_test")
    /\ UNCHANGED <<now, ticks, admin_sessions, issued, revoked, products,
                   next_id, files, limited>>

\* the cap compared with > where the code has >=
AtCap_strict(a) == Len(a) > MAX_LOGIN_ATTEMPTS

AtCap(a) == Len(a) >= MAX_LOGIN_ATTEMPTS

\* the attempt appended before the cap is tested
RL_Cap_recording(t) ==
    /\ th[t].pc = "rl_cap"
    /\ LET c == th[t].client IN
         IF AtCap(login_attempts[c])
           THEN /\ Raise(t, 429,
                         "Too many login attempts. Please try again later.")
                /\ login_attempts' =
                     [login_attempts EXCEPT ![c] = Append(@, th[t].rl_now)]
                /\ limited' = limited \cup {c}
           ELSE /\ Goto(t, "rl_append")
                /\ UNCHANGED <<login_attempts, limited>>
    /\ UNCHANGED <<now, ticks, admin_sessions, issued, revoked, products,
                   next_id, files>>

\* lines 160-164: if len(attempts) >= MAX_LOGIN_ATTEMPTS: raise 429
RL_Cap(t) ==
    /\ th[t].pc = "rl_cap"
    /\ IF AtCap(login_attempts[th[t].client])
         THEN /\ Raise(t, 429,
                       "Too many login attempts. Please try again later.")
              /\ limited' = limited \cup {th[t].client}
         ELSE /\ Goto(t, "rl_append")
              /\ UNCHANGED limited
    /\ UNCHANGED <<now, ticks, admin_sessions, login_attempts, issued,
                   revoked, products, next_id, files>>

\* line 166: attempts.append(now)
RL_Append(t) ==
    /\ th[t].pc = "rl_append"
    /\ LET c == th[t].client IN
         login_attempts' =
             [login_attempts EXCEPT ![c] = Append(@, th[t].rl_now)]
    /\ limited' = limited \ {th[t].client}
    /\ th' = [th EXCEPT ![t].pc = "login_pw", ![t].recorded = TRUE]
    /\ UNCHANGED <<now, ticks, admin_sessions, issued, revoked, products,
                   next_id, files>>

----------------------------------------------------------------------------
(* admin_login *)

\* lines 293-294: client_ip, then check_login_rate_limit(client_ip)
admin_login(t, c, pw) ==
    /\ th[t].pc = "idle"
    /\ pw = ADMIN_PASSWORD =>
         Cardinality(issued)
           + Cardinality({u \in Threads : /\ th[u].op = "admin_login"
                                          /\ th[u].pc # "done"
                                          /\ th[u].password = ADMIN_PASSWORD})
           < MaxTokens
    /\ Start(t, [IdleThread EXCEPT !.op = "admin_login", !.client = c,
                                   !.password = pw, !.pc = "rl_now"])
    /\ UNCHANGED shared

\* only the empty password refused
WrongPassword_empty(pw) == pw = ""

WrongPassword(pw) == pw = "" \/ pw # ADMIN_PASSWORD

\* lines 296-297
Login_Password(t) ==
    /\ th[t].pc = "login_pw"
    /\ IF WrongPassword(th[t].password)
         THEN th' = [th EXCEPT ![t] = [Done(@, 401) EXCEPT
                         !.detail = "Wrong password", !.pw_compared = TRUE]]
         ELSE th' = [th EXCEPT ![t].pc = "login_issue", ![t].pw_compared = TRUE]
    /\ UNCHANGED shared

\* secrets.token_hex(32): a token never returned before; tokens are opaque,
\* so they are numbered in the order they are generated
token_hex(used) == Cardinality(used) + 1

\* lines 299-311: token = secrets.token_hex(32); admin_sessions[token] = utcnow()
Login_Issue(t) ==
    /\ th[t].pc = "login_issue"
    /\ LET tok == token_hex(issued) IN
         /\ issued' = issued \cup {tok}
         /\ admin_sessions' = DictSet(admin_sessions, tok, now)
         /\ th' = [th EXCEPT ![t] = [Done(@, 200) EXCEPT !.token = tok]]
    /\ UNCHANGED <<now, ticks, login_attempts, revoked, products, next_id,
                   files, limited>>

----------------------------------------------------------------------------
(* admin_logout *)

admin_logout(t, ck) ==
    /\ th[t].pc = "idle"
    /\ Start(t, [IdleThread EXCEPT !.op = "admin_logout", !.cookie = ck,
                                   !.pc = "lo_test"])
    /\ UNCHANGED shared

\* line 317: if token and token in admin_sessions
Logout_Test(t) ==
    /\ th[t].pc = "lo_test"
    /\ IF th[t].cookie # NoCookie /\ th[t].cookie \in DOMAIN admin_sessions
         THEN Goto(t, "lo_pop")
         ELSE th' = [th EXCEPT ![t] = Done(@, 200)]
    /\ UNCHANGED shared

\* every session removed with the one of the cookie
Logout_Pop_all(t) ==
    /\ th[t].pc = "lo_pop"
    /\ admin_sessions' = EmptyDict
    /\ revoked' = revoked \cup {th[t].cookie}
    /\ th' = [th EXCEPT ![t] = Done(@, 200)]
    /\ UNCHANGED <<now, ticks, login_attempts, issued, products, next_id,
                   files, limited>>

\* lines 318-327: admin_sessions.pop(token, None); delete the cookie
Logout_Pop(t) ==
    /\ th[t].pc = "lo_pop"
    /\ admin_sessions' = DictPop(admin_sessions, th[t].cookie)
    /\ revoked' = revoked \cup {th[t].cookie}
    /\ th' = [th EXCEPT ![t] = Done(@, 200)]
    /\ UNCHANGED <<now, ticks, login_attempts, issued, products, next_id,
                   files, limited>>

----------------------------------------------------------------------------
(* require_admin *)

\* where a handler continues once require_admin has returned
AfterAuth(op) ==
    IF op \in {"create_product", "update_product"}
      THEN "validate"
      ELSE "db_open"

\* lines 143-145
RA_Test(t) ==
    /\ th[t].pc = "ra_test"
    /\ IF th[t].cookie = NoCookie \/ th[t].cookie \notin DOMAIN admin_sessions
         THEN Raise(t, 401, "Unauthorized")
         ELSE Goto(t, "ra_age")
    /\ UNCHANGED shared

\* the operands of the subtraction exchanged
TooOld_swapped(issue, at) == issue - at > SESSION_AGE

TooOld(issue, at) == at - issue > SESSION_AGE

\* the issue time set anew by every accepted call
RA_Age_refresh(t) ==
    /\ th[t].pc = "ra_age"
    /\ IF th[t].cookie \notin DOMAIN admin_sessions
         THEN Raise(t, 500, "KeyError") /\ UNCHANGED admin_sessions
         ELSE IF TooOld(admin_sessions[th[t].cookie], now)
                THEN Goto(t, "ra_evict") /\ UNCHANGED admin_sessions
                ELSE /\ th' = [th EXCEPT ![t].pc = AfterAuth(th[t].op),
                                         ![t].authorized = TRUE]
                     /\ admin_sessions' =
                          [admin_sessions EXCEPT ![th[t].cookie] = now]
    /\ UNCHANGED <<now, ticks, login_attempts, issued, revoked, products,
                   next_id, files, limited>>

\* line 147: datetime.utcnow() - admin_sessions[token] > SESSION_AGE
RA_Age(t) ==
    /\ th[t].pc = "ra_age"
    /\ IF th[t].cookie \notin DOMAIN admin_sessions
         THEN Raise(t, 500, "KeyError")
         ELSE IF TooOld(admin_sessions[th[t].cookie], now)
                THEN Goto(t, "ra_evict")
                ELSE th' = [th EXCEPT ![t].pc = AfterAuth(th[t].op),
                                      ![t].authorized = TRUE]
    /\ UNCHANGED shared

\* the expired entry left in the store
RA_Evict_keeps(t) ==
    /\ th[t].pc = "ra_evict"
    /\ Raise(t, 401, "Session expired")
    /\ UNCHANGED shared

\* lines 148-149
RA_Evict(t) ==
    /\ th[t].pc = "ra_evict"
    /\ admin_sessions' = DictPop(admin_sessions, th[t].cookie)
    /\ Raise(t, 401, "Session expired")
    /\ UNCHANGED <<now, ticks, login_attempts, issued, revoked, products,
                   next_id, files, limited>>

----------------------------------------------------------------------------
(* Validation helpers *)

IsSpace(c) == c = " "

RECURSIVE LStrip(_)
LStrip(s) == IF s # <<>> /\ IsSpace(Head(s)) THEN LStrip(Tail(s)) ELSE s

RECURSIVE RStrip(_)
RStrip(s) ==
    IF s # <<>> /\ IsSpace(s[Len(s)])
      THEN RStrip(SubSeq(s, 1, Len(s) - 1))
      ELSE s

\* str.strip()
Strip(s) == RStrip(LStrip(s))

\* lines 205-214: the stripped text, or "Field too long"
clean_text(value, max_len) ==
    LET v == Strip(value) IN
      [ok |-> v = <<>> \/ Len(v) <= max_len, v |-> v]

\* the price 0 let through
PriceInRange_zero(price) == ~(price < 0 \/ price > MAX_PRICE)

\* line 227
PriceInRange(price) == ~(price <= 0 \/ price > MAX_PRICE)

\* lines 217-234
validate_product_fields(name, price, description) ==
    LET n == clean_text(name, MAX_NAME_LEN)
        d == clean_text(description, MAX_DESC_LEN)
    IN  IF ~n.ok THEN Rejected("Field too long")
        ELSE IF n.v = <<>> THEN Rejected("Product name is required.")
        ELSE IF ~PriceInRange(price)
          THEN Rejected("Price must be between 1 and 1,000,000.")
        ELSE IF ~d.ok THEN Rejected("Field too long")
        ELSE [ok |-> TRUE, detail |-> "", name |-> n.v, price |-> price,
              description |-> d.v]

Str_image == <<"i", "m", "a", "g", "e">>

\* the directory part kept
Basename_whole(s) == s

\* os.path.basename: what follows the last "/"
Basename(s) ==
    LET slashes == {i \in 1..Len(s) : s[i] = "/"} IN
      IF slashes = {}
        THEN s
        ELSE SubSeq(s, (CHOOSE i \in slashes : \A j \in slashes : j <= i) + 1,
                    Len(s))

\* str.isalnum() on the characters the inputs are made of
IsAlnum(c) ==
    c \in {"a", "c", "d", "e", "g", "i", "m", "n", "p", "s", "t", "u", "w"}

SafeChar(c) == IsAlnum(c) \/ c \in {"_", "-", "."}

\* lines 237-243
secure_filename(filename) ==
    LET base == Basename(IF filename = <<>> THEN Str_image ELSE filename)
        safe == SelectSeq(base, SafeChar)
    IN  IF safe = <<>> THEN Str_image ELSE safe

----------------------------------------------------------------------------
(* Exceptions: inside "with get_db()" the except clause of get_db runs      *)
(* first (rollback, close) and the exception is re-raised.                 *)

Throw(t, code, msg) ==
    th' = [th EXCEPT ![t].status = code, ![t].detail = msg,
                     ![t].pc = IF th[t].tx = "active" THEN "db_rollback"
                                                      ELSE "done"]

Thrown(r, code, msg) ==
    [r EXCEPT !.status = code, !.detail = msg,
              !.pc = IF r.tx = "active" THEN "db_rollback" ELSE "done"]

----------------------------------------------------------------------------
(* save_upload_image *)

\* lines 247-248
SU_Name(t) ==
    /\ th[t].pc = "su_name"
    /\ IF th[t].upload.filename = <<>>
         THEN Throw(t, 400, "Image file is required.")
         ELSE Goto(t, "su_type")
    /\ UNCHANGED shared

\* every declared type let through
AllowedType_any(ct) == TRUE

AllowedType(ct) == ct \in ALLOWED_IMAGE_CONTENT_TYPES

\* lines 250-254
SU_Type(t) ==
    /\ th[t].pc = "su_type"
    /\ IF ~AllowedType(th[t].upload.content_type)
         THEN Throw(t, 400, "Unsupported image type. Allowed: JPEG, PNG, WebP.")
         ELSE Goto(t, "su_path")
    /\ UNCHANGED shared

\* lines 256-258: the stored name is <timestamp>_<sanitised filename>
SU_Path(t) ==
    /\ th[t].pc = "su_path"
    /\ th' = [th EXCEPT ![t].path = <<now, secure_filename(th[t].upload.filename)>>,
                        ![t].pc = "su_open"]
    /\ UNCHANGED shared

\* lines 260-261: open(filepath, "wb") creates or truncates the file
SU_Open(t) ==
    /\ th[t].pc = "su_open"
    /\ files' = DictSet(files, th[t].path, 0)
    /\ th' = [th EXCEPT ![t].size = 0, ![t].pc = "su_chunk"]
    /\ UNCHANGED <<now, ticks, admin_sessions, login_attempts, issued,
                   revoked, products, next_id, limited>>

Min(a, b) == IF a <= b THEN a ELSE b

TooLarge(size) == size > MAX_IMAGE_SIZE_BYTES

\* the partial file left behind
Remove_kept(dir, path) == dir

\* line 269: os.remove(filepath); a missing file is the OSError of line 270
Remove(dir, path) == DictPop(dir, path)

\* after save_upload_image has returned
AfterUpload(op) == IF op = "create_product" THEN "db_open" ELSE "db_exec"

\* lines 262-278: one turn of the loop, or the return after the last chunk
SU_Chunk(t) ==
    /\ th[t].pc = "su_chunk"
    /\ LET r == th[t]
           chunk == Min(CHUNK_SIZE, r.upload.length - r.consumed)
           size == r.size + chunk
           read == [r EXCEPT !.consumed = @ + chunk, !.size = size]
       IN  IF chunk = 0
             THEN /\ th' = [th EXCEPT ![t].img_path = r.path,
                                      ![t].pc = AfterUpload(r.op)]
                  /\ UNCHANGED files
             ELSE IF TooLarge(size)
               THEN /\ files' = Remove(files, r.path)
                    /\ th' = [th EXCEPT ![t] =
                                Thrown(read, 400, "Image too large. Max size is 5 MB.")]
               ELSE /\ files' = IF r.path \in DOMAIN files
                                  THEN [files EXCEPT ![r.path] = @ + chunk]
                                  ELSE files
                    /\ th' = [th EXCEPT ![t] = read]
    /\ UNCHANGED <<now, ticks, admin_sessions, login_attempts, issued,
                   revoked, products, next_id, limited>>

----------------------------------------------------------------------------
(* get_db and the statements run inside it *)

\* the statement of the handler, as a change to the products table
Statement(r, id) ==
    CASE r.op = "create_product" ->
           [kind |-> "insert", id |-> id, name |-> r.clean.name,
            price |-> r.clean.price, description |-> r.clean.description,
            image |-> r.img_path, set_image |-> TRUE]
      [] r.op = "update_product" ->
           [kind |-> "update", id |-> r.product_id, name |-> r.clean.name,
            price |-> r.clean.price, description |-> r.clean.description,
            image |-> r.img_path, set_image |-> r.has_image]
      [] r.op = "delete_product" ->
           [NoPending EXCEPT !.kind = "delete", !.id = r.product_id]
      [] OTHER -> NoPending

Row(p, image) ==
    [name |-> p.name, price |-> p.price, description |-> p.description,
     image |-> image]

\* the image column set by every update
Apply_image(table, p) ==
    CASE p.kind = "insert" -> DictSet(table, p.id, Row(p, p.image))
      [] p.kind = "update" ->
           IF p.id \in DOMAIN table
             THEN [table EXCEPT ![p.id] = Row(p, p.image)]
             ELSE table
      [] p.kind = "delete" -> DictPop(table, p.id)
      [] OTHER -> table

\* the table once the statement is committed
Apply(table, p) ==
    CASE p.kind = "insert" -> DictSet(table, p.id, Row(p, p.image))
      [] p.kind = "update" ->
           IF p.id \in DOMAIN table
             THEN [table EXCEPT ![p.id] =
                     Row(p, IF p.set_image THEN p.image ELSE @.image)]
             ELSE table
      [] p.kind = "delete" -> DictPop(table, p.id)
      [] OTHER -> table

\* lines 86-89: connect, open a cursor, enter the with block
DB_Open(t) ==
    /\ th[t].pc = "db_open"
    /\ th' = [th EXCEPT ![t].conn = "open", ![t].tx = "active",
                        ![t].db_used = TRUE,
                        ![t].pc = IF th[t].op = "update_product" /\ th[t].has_image
                                    THEN "su_name" ELSE "db_exec"]
    /\ UNCHANGED shared

\* cur.execute(...): lines 360, 402, 431, 440, 457
DB_Exec(t) ==
    /\ th[t].pc = "db_exec"
    /\ th' = [th EXCEPT ![t].pending = Statement(th[t], next_id),
                        ![t].pc = "db_commit"]
    /\ next_id' = IF th[t].op = "create_product" THEN next_id + 1 ELSE next_id
    /\ UNCHANGED <<now, ticks, admin_sessions, login_attempts, issued,
                   revoked, products, files, limited>>

\* line 90
DB_Commit(t) ==
    /\ th[t].pc = "db_commit"
    /\ products' = Apply(products, th[t].pending)
    /\ th' = [th EXCEPT ![t].tx = "committed", ![t].pc = "db_close"]
    /\ UNCHANGED <<now, ticks, admin_sessions, login_attempts, issued,
                   revoked, next_id, files, limited>>

\* the transaction committed where the code rolls it back
DB_Rollback_commit(t) ==
    /\ th[t].pc = "db_rollback"
    /\ th' = [th EXCEPT ![t].tx = "committed", ![t].pc = "db_close"]
    /\ UNCHANGED shared

\* lines 91-93
DB_Rollback(t) ==
    /\ th[t].pc = "db_rollback"
    /\ th' = [th EXCEPT ![t].tx = "rolledback", ![t].pc = "db_close"]
    /\ UNCHANGED shared

\* lines 94-96, then the handler's return or the re-raised exception
DB_Close(t) ==
    /\ th[t].pc = "db_close"
    /\ th' = [th EXCEPT ![t].conn = "closed", ![t].closes = @ + 1,
                        ![t].pc = "done",
                        ![t].status = IF th[t].tx = "committed" THEN 200 ELSE @]
    /\ UNCHANGED shared

----------------------------------------------------------------------------
(* The admin handlers: each starts with require_admin(request) *)

\* lines 355-357
list_enquiries(t, ck) ==
    /\ th[t].pc = "idle"
    /\ Start(t, [IdleThread EXCEPT !.op = "list_enquiries", !.cookie = ck,
                                   !.pc = "ra_test"])
    /\ UNCHANGED shared

\* lines 386-394
create_product(t, ck, name, price, description, image) ==
    /\ th[t].pc = "idle"
    /\ next_id <= MaxProducts
    /\ Start(t, [IdleThread EXCEPT !.op = "create_product", !.cookie = ck,
                                   !.name = name, !.price = price,
                                   !.description = description,
                                   !.has_image = TRUE, !.upload = image,
                                   !.pc = "ra_test"])
    /\ UNCHANGED shared

\* lines 413-422; image is None when the form carries no file
update_product(t, ck, id, name, price, description, has_image, image) ==
    /\ th[t].pc = "idle"
    /\ Start(t, [IdleThread EXCEPT !.op = "update_product", !.cookie = ck,
                                   !.product_id = id,
                                   !.name = name, !.price = price,
                                   !.description = description,
                                   !.has_image = has_image, !.upload = image,
                                   !.pc = "ra_test"])
    /\ UNCHANGED shared

\* the handler without its require_admin(request) line
delete_product_open(t, ck, id) ==
    /\ th[t].pc = "idle"
    /\ Start(t, [IdleThread EXCEPT !.op = "delete_product", !.cookie = ck,
                                   !.product_id = id, !.pc = "db_open"])
    /\ UNCHANGED shared

\* lines 452-454
delete_product(t, ck, id) ==
    /\ th[t].pc = "idle"
    /\ Start(t, [IdleThread EXCEPT !.op = "delete_product", !.cookie = ck,
                                   !.product_id = id, !.pc = "ra_test"])
    /\ UNCHANGED shared

\* lines 396-398, 424-426
Validate(t) ==
    /\ th[t].pc = "validate"
    /\ LET v == validate_product_fields(th[t].name, th[t].price,
                                        th[t].description) IN
         IF ~v.ok
           THEN Throw(t, 400, v.detail)
           ELSE th' = [th EXCEPT ![t].clean = v,
                                 ![t].pc = IF th[t].op = "create_product"
                                             THEN "su_name" ELSE "db_open"]
    /\ UNCHANGED shared

----------------------------------------------------------------------------
(* The response is sent and the worker takes the next request. *)
Return(t) ==
    /\ th[t].pc = "done"
    /\ th' = [th EXCEPT ![t] = IdleThread]
    /\ UNCHANGED shared

(* Time passes. *)
Tick(d) ==
    /\ ticks < MaxTicks
    /\ now' = now + d
    /\ ticks' = ticks + 1
    /\ UNCHANGED <<admin_sessions, login_attempts, issued, revoked, products,
                   next_id, files, th, limited>>

----------------------------------------------------------------------------
Init ==
    /\ now = 0
    /\ ticks = 0
    /\ admin_sessions = EmptyDict
    /\ login_attempts = [c \in Clients |-> <<>>]
    /\ issued = {}
    /\ revoked = {}
    /\ limited = {}
    /\ products = EmptyDict
    /\ next_id = 1
    /\ files = EmptyDict
    /\ th = [t \in Threads |-> IdleThread]

\* the inputs of a well-formed product form
GoodName == Str_mug
GoodPrice == MAX_PRICE

LimiterSteps(t) ==
    \/ RL_Now(t) \/ RL_Test(t) \/ RL_Peek(t) \/ RL_Pop(t) \/ RL_Cap(t)
    \/ RL_Append(t)

LoginSteps(t) == LimiterSteps(t) \/ Login_Password(t) \/ Login_Issue(t)

LogoutSteps(t) == Logout_Test(t) \/ Logout_Pop(t)

GateSteps(t) == RA_Test(t) \/ RA_Age(t) \/ RA_Evict(t)

UploadSteps(t) ==
    SU_Name(t) \/ SU_Type(t) \/ SU_Path(t) \/ SU_Open(t) \/ SU_Chunk(t)

\* get_db when the block raises nothing
DbSteps(t) == DB_Open(t) \/ DB_Exec(t) \/ DB_Commit(t) \/ DB_Close(t)

(* Each specification below lists the requests it draws and the steps those *)
(* requests can take; a step it leaves out is one none of them enables.     *)

(* Requests handled one at a time: the session store and the admin gate. *)
Next ==
    \/ AllIdle /\ admin_login(1, "10.0.0.1", ADMIN_PASSWORD)
    \/ AllIdle /\ \E ck \in Cookies : admin_logout(1, ck)
    \/ AllIdle /\ \E ck \in Cookies : list_enquiries(1, ck)
    \/ AllIdle /\ products = EmptyDict /\ \E ck \in Cookies :
         create_product(1, ck, GoodName, GoodPrice, <<>>, GoodUpload)
    \/ AllIdle /\ \E ck \in Cookies, id \in ProductIds :
         update_product(1, ck, id, GoodName, GoodPrice, <<>>, FALSE, NoUpload)
    \/ AllIdle /\ \E ck \in Cookies, id \in ProductIds :
         delete_product(1, ck, id)
    \/ LoginSteps(1) \/ LogoutSteps(1) \/ GateSteps(1)
    \/ Validate(1) \/ UploadSteps(1) \/ DbSteps(1)
    \/ Return(1)
    \/ AllIdle /\ Tick(SESSION_AGE)

Spec == Init /\ [][Next]_vars

(* Requests handled one at a time: logins of one client, right and wrong. *)
NextLogin ==
    \/ AllIdle /\ \E pw \in Passwords : admin_login(1, "10.0.0.1", pw)
    \/ AllIdle /\ \E ck \in Cookies : admin_logout(1, ck)
    \/ AllIdle /\ \E ck \in Cookies : list_enquiries(1, ck)
    \/ LoginSteps(1) \/ LogoutSteps(1) \/ GateSteps(1) \/ DbSteps(1)
    \/ Return(1)
    \/ AllIdle /\ \E d \in {LOGIN_WINDOW_SECONDS, SESSION_AGE} : Tick(d)

SpecLogin == Init /\ [][NextLogin]_vars

(* Requests handled one at a time: the login rate limiter. *)
NextLimiter ==
    \/ AllIdle /\ \E c \in Clients, pw \in {ADMIN_PASSWORD, "hunter2"} :
         admin_login(1, c, pw)
    \/ LoginSteps(1)
    \/ Return(1)
    \/ AllIdle /\ Tick(LOGIN_WINDOW_SECONDS)

SpecLimiter == Init /\ [][NextLimiter]_vars

(* Requests handled one at a time: the upload writer and the product forms, *)
(* all within one second and after at most one login; a product is created  *)
(* while the table is empty.                                                *)
NextUpload ==
    \/ AllIdle /\ admin_sessions = EmptyDict
         /\ admin_login(1, "10.0.0.1", ADMIN_PASSWORD)
    \/ AllIdle /\ products = EmptyDict /\ \E i \in ProductInputs :
         create_product(1, 1, i.form.name, i.form.price, <<>>, i.upload)
    \/ AllIdle /\ \E id \in ProductIds,
                     i \in ProductInputs \cup [form : Forms, upload : {NoUpload}] :
         update_product(1, 1, id, i.form.name, i.form.price, <<>>,
                        i.upload # NoUpload, i.upload)
    \/ AllIdle /\ \E id \in ProductIds : delete_product(1, 1, id)
    \/ RL_Now(1) \/ RL_Test(1) \/ RL_Cap(1) \/ RL_Append(1)
    \/ Login_Password(1) \/ Login_Issue(1)
    \/ RA_Test(1) \/ RA_Age(1)
    \/ Validate(1) \/ UploadSteps(1) \/ DbSteps(1) \/ DB_Rollback(1)
    \/ Return(1)

SpecUpload == Init /\ [][NextUpload]_vars

(* Requests handled one at a time: one upload into the empty directory, *)
(* under every filename.                                                *)
NextNames ==
    \/ AllIdle /\ admin_sessions = EmptyDict
         /\ admin_login(1, "10.0.0.1", ADMIN_PASSWORD)
    \/ AllIdle /\ files = EmptyDict /\ \E fn \in NameInputs :
         update_product(1, 1, 1, GoodName, GoodPrice, <<>>, TRUE,
                        [GoodUpload EXCEPT !.filename = fn])
    \/ RL_Now(1) \/ RL_Test(1) \/ RL_Cap(1) \/ RL_Append(1)
    \/ Login_Password(1) \/ Login_Issue(1)
    \/ RA_Test(1) \/ RA_Age(1)
    \/ Validate(1) \/ UploadSteps(1) \/ DbSteps(1)
    \/ Return(1)

SpecNames == Init /\ [][NextNames]_vars

(* Requests handled one at a time: products created under two images and *)
(* updated without a file, all within one second.                        *)
NextUpdate ==
    \/ AllIdle /\ admin_sessions = EmptyDict
         /\ admin_login(1, "10.0.0.1", ADMIN_PASSWORD)
    \/ AllIdle /\ \E fn \in {Str_png, Str_traversal} :
         create_product(1, 1, GoodName, GoodPrice, <<>>,
                        [GoodUpload EXCEPT !.filename = fn])
    \/ AllIdle /\ \E id \in ProductIds, f \in UpdateForms :
         update_product(1, 1, id, f.name, f.price, f.description, FALSE,
                        NoUpload)
    \/ RL_Now(1) \/ RL_Test(1) \/ RL_Cap(1) \/ RL_Append(1)
    \/ Login_Password(1) \/ Login_Issue(1)
    \/ RA_Test(1) \/ RA_Age(1)
    \/ Validate(1) \/ UploadSteps(1) \/ DbSteps(1)
    \/ Return(1)

SpecUpdate == Init /\ [][NextUpdate]_vars

(* Requests of two worker threads interleaved: the session store.  A client *)
(* sends only a token some login has returned.                             *)
NextSessionThreads ==
    \/ \E t \in Threads : admin_login(t, "10.0.0.1", ADMIN_PASSWORD)
    \/ \E t \in Threads, ck \in issued : admin_logout(t, ck)
    \/ \E t \in Threads, ck \in issued : list_enquiries(t, ck)
    \/ \E t \in Threads :
         LoginSteps(t) \/ LogoutSteps(t) \/ GateSteps(t) \/ DbSteps(t)
    \/ \E t \in Threads : Return(t)
    \/ Tick(SESSION_AGE + 1)

SpecSessionThreads == Init /\ [][NextSessionThreads]_vars

(* Requests of two worker threads interleaved: the attempt histories. *)
NextLimiterThreads ==
    \/ \E t \in Threads : admin_login(t, "10.0.0.1", "hunter2")
    \/ \E t \in Threads : LimiterSteps(t) \/ Login_Password(t)
    \/ \E t \in Threads : Return(t)
    \/ Tick(LOGIN_WINDOW_SECONDS + 1)

SpecLimiterThreads == Init /\ [][NextLimiterThreads]_vars

----------------------------------------------------------------------------
(* Properties of the login rate limiter (SpecLimiter) *)

\* the timestamps of history h that lie within the window that ends at time at
InWindow(h, at) ==
    SelectSeq(h, LAMBDA stamp : at - stamp <= LOGIN_WINDOW_SECONDS)

LoginDone(t) == th[t].pc = "done" /\ th[t].op = "admin_login"

\* C1: a login attempt made while fewer than 5 attempts of its client lie
\* within the trailing 15 minutes reaches the password comparison and is
\* recorded; one made while 5 lie within the window is answered 429 without
\* the password being compared, whatever the password.
C1_RateLimit ==
    \A t \in Threads :
      LoginDone(t) =>
        LET r == th[t]
            before == InWindow(r.h0[r.client], r.t0)
        IN  /\ Len(before) < MAX_LOGIN_ATTEMPTS =>
                 /\ r.pw_compared /\ r.recorded
                 /\ r.status \in {200, 401}
                 /\ r.status = 200 <=> r.password = ADMIN_PASSWORD
                 /\ login_attempts[r.client] = Append(before, r.t0)
            /\ Len(before) >= MAX_LOGIN_ATTEMPTS =>
                 /\ r.status = 429
                 /\ ~r.pw_compared /\ ~r.recorded

\* the sixth attempt within the window, with the right password, is turned away
C1_Witness ==
    \E t \in Threads :
      /\ LoginDone(t) /\ th[t].status = 429
      /\ th[t].password = ADMIN_PASSWORD
      /\ Len(InWindow(th[t].h0[th[t].client], th[t].t0)) = MAX_LOGIN_ATTEMPTS
      /\ th[t].t0 > 0

\* C9: with 5 attempts in the history, a check made more than 15 minutes
\* after the oldest of them drops the oldest and reaches the password check.
C9_WindowElapsed ==
    \A t \in Threads :
      LoginDone(t) =>
        LET r == th[t]
            h == r.h0[r.client]
        IN  (Len(h) = MAX_LOGIN_ATTEMPTS
               /\ r.t0 - h[1] > LOGIN_WINDOW_SECONDS) =>
              /\ r.pw_compared /\ r.status # 429
              /\ \A i \in 1..Len(login_attempts[r.client]) :
                   r.t0 - login_attempts[r.client][i] <= LOGIN_WINDOW_SECONDS
              /\ Len(login_attempts[r.client]) <= MAX_LOGIN_ATTEMPTS

\* 5 attempts, the oldest out of the window and a younger one still in it
C9_Witness ==
    \E t \in Threads :
      /\ LoginDone(t)
      /\ Len(th[t].h0[th[t].client]) = MAX_LOGIN_ATTEMPTS
      /\ th[t].t0 - th[t].h0[th[t].client][1] > LOGIN_WINDOW_SECONDS
      /\ th[t].pw_compared
      /\ Len(login_attempts[th[t].client]) > 1

\* C10: a check that fails with 429 records nothing: the client's history is
\* the in-window timestamps it held before, every other history is unchanged.
C10_RejectedNotRecorded ==
    \A t \in Threads :
      (LoginDone(t) /\ th[t].status = 429) =>
        LET r == th[t] IN
          /\ login_attempts[r.client] = InWindow(r.h0[r.client], r.t0)
          /\ \A c \in Clients \ {r.client} : login_attempts[c] = r.h0[c]

C10_Witness ==
    \E t \in Threads :
      /\ LoginDone(t) /\ th[t].status = 429
      /\ \E c \in Clients \ {th[t].client} : login_attempts[c] # <<>>

----------------------------------------------------------------------------
(* Properties of the session store and the admin gate (Spec) *)

AdminOps ==
    {"list_enquiries", "create_product", "update_product", "delete_product"}

AdminDone(t) == th[t].pc = "done" /\ th[t].op \in AdminOps

Refused(r, msg) == ~r.authorized /\ r.status = 401 /\ r.detail = msg

\* C2: require_admin accepts a token at the time it was issued, answers
\* 401 Unauthorized to every call made once admin_logout has revoked it, and
\* answers 401 Session expired to the call that finds it in the store more
\* than 7 days after its issue.
C2_TokenLifecycle ==
    \A t \in Threads :
      AdminDone(t) =>
        LET r == th[t]
            tok == r.cookie
        IN  /\ (tok \in DOMAIN r.s0 /\ r.s0[tok] = r.t0) => r.authorized
            /\ tok \in revoked => Refused(r, "Unauthorized")
            /\ (tok \in DOMAIN r.s0 /\ r.t0 - r.s0[tok] > SESSION_AGE) =>
                 Refused(r, "Session expired")

\* one token revoked, and another found expired by the call just answered
C2_Witness ==
    \E t \in Threads :
      /\ AdminDone(t)
      /\ revoked # {}
      /\ th[t].cookie \in DOMAIN th[t].s0
      /\ th[t].t0 - th[t].s0[th[t].cookie] > SESSION_AGE
      /\ th[t].detail = "Session expired"

\* the cookie of request r named a stored token no older than 7 days when the
\* request was made
ValidSession(r) ==
    /\ r.cookie \in DOMAIN r.s0
    /\ r.t0 - r.s0[r.cookie] <= SESSION_AGE

TouchedData(r) ==
    \/ r.db_used \/ r.conn # "none" \/ r.pending # NoPending
    \/ r.path # <<>> \/ r.consumed > 0
    \/ products # r.p0 \/ files # r.f0

\* C3: an admin request touches the database or the upload directory only
\* with a valid session; without one it ends in 401 with the products table
\* and the upload directory as they were.
C3_AdminGate ==
    \A t \in Threads :
      th[t].op \in AdminOps =>
        LET r == th[t] IN
          /\ TouchedData(r) => ValidSession(r)
          /\ (r.pc = "done" /\ ~ValidSession(r)) =>
               /\ r.status = 401
               /\ products = r.p0 /\ files = r.f0

\* a delete of an existing product, refused for want of a valid session
C3_Witness ==
    \E t \in Threads :
      /\ AdminDone(t) /\ th[t].op = "delete_product"
      /\ th[t].product_id \in DOMAIN products
      /\ DOMAIN files # {}
      /\ ~ValidSession(th[t])
      /\ th[t].status = 401

\* C4: a token enters the session store only in the step of a login that
\* passed the rate limit and gave the admin password; a login that ends
\* otherwise leaves the store as it was.
C4_SessionsFromLogins ==
    [][/\ \A tok \in DOMAIN admin_sessions' \ DOMAIN admin_sessions :
            \E t \in Threads :
              /\ th[t].op = "admin_login"
              /\ th[t].recorded /\ th[t].pw_compared
              /\ th[t].password = ADMIN_PASSWORD
              /\ th'[t].status = 200 /\ th'[t].token = tok
       /\ \A t \in Threads :
            (th'[t].pc = "done" /\ th'[t].op = "admin_login"
               /\ th'[t].status # 200) =>
              admin_sessions' = th'[t].s0]_vars

\* a login with the empty password refused while a session is in the store
C4_Witness ==
    \E t \in Threads :
      /\ LoginDone(t) /\ th[t].password = "" /\ th[t].status = 401
      /\ admin_sessions # EmptyDict
      /\ admin_sessions = th[t].s0

----------------------------------------------------------------------------
(* Properties of the upload writer (SpecUpload) *)

\* the handler of request r has called save_upload_image
UploadCalled(r) ==
    /\ r.op \in {"create_product", "update_product"}
    /\ r.authorized /\ r.clean.ok /\ r.has_image

UploadDone(t) == th[t].pc = "done" /\ UploadCalled(th[t])

FileLimit == \A f \in DOMAIN files : files[f] <= MAX_IMAGE_SIZE_BYTES

\* the bytes read when the loop meets the first chunk that takes the count
\* above the ceiling
FirstExcess(length) ==
    Min(length, (MAX_IMAGE_SIZE_BYTES \div CHUNK_SIZE + 1) * CHUNK_SIZE)

Overflowed(r) ==
    /\ r.status = 400 /\ r.detail = "Image too large. Max size is 5 MB."
    /\ r.consumed = FirstExcess(r.upload.length)
    /\ r.path \notin DOMAIN files

C8_CheckOrder ==
    \A t \in Threads :
      UploadDone(t) =>
        LET r == th[t]
            untouched == /\ r.status = 400
                         /\ r.consumed = 0 /\ r.path = <<>>
                         /\ files = r.f0
        IN  /\ r.upload.filename = <<>> =>
                 untouched /\ r.detail = "Image file is required."
            /\ (r.upload.filename # <<>>
                  /\ r.upload.content_type \notin ALLOWED_IMAGE_CONTENT_TYPES) =>
                 untouched /\ r.detail = "Unsupported image type. Allowed: JPEG, PNG, WebP."

\* a 6 MiB body declared application/pdf, refused for its type
C8_Witness ==
    \E t \in Threads :
      /\ UploadDone(t)
      /\ th[t].upload.filename # <<>>
      /\ th[t].upload.content_type = "application/pdf"
      /\ th[t].upload.length > MAX_IMAGE_SIZE_BYTES
      /\ th[t].detail = "Unsupported image type. Allowed: JPEG, PNG, WebP."

----------------------------------------------------------------------------
(* Properties of the stored images (SpecUpload) *)

\* a save_upload_image call has file f open for writing
Writing(f) == \E t \in Threads : th[t].pc = "su_chunk" /\ th[t].path = f

\* C11: the image reference of every product row names a file that exists in
\* the upload directory, holds at most 5 MiB and is not being rewritten.
C11_ImageRefsValid ==
    \A id \in DOMAIN products :
      LET img == products[id].image IN
        /\ img \in DOMAIN files
        /\ files[img] <= MAX_IMAGE_SIZE_BYTES
        /\ ~Writing(img)

\* C12: a save_upload_image call that succeeds returns a reference no file
\* in the directory had when the request began, and no call changes or
\* removes a file that was there when its request began.
C12_DistinctReferences ==
    \A t \in Threads :
      UploadCalled(th[t]) =>
        /\ th[t].img_path # <<>> => th[t].img_path \notin DOMAIN th[t].f0
        /\ \A f \in DOMAIN th[t].f0 :
             f \in DOMAIN files /\ files[f] = th[t].f0[f]

----------------------------------------------------------------------------
(* Properties of the stored name (SpecNames) *)

\* what follows the last "/" of s, all of s when it holds none
AfterLastSlash(s) ==
    LET cut == {i \in 0..Len(s) : i = 0 \/ s[i] = "/"}
        last == CHOOSE i \in cut : \A j \in cut : j <= i
    IN  SubSeq(s, last + 1, Len(s))

\* letters, underscore, hyphen and dot
NameChars ==
    {"a", "c", "d", "e", "g", "i", "m", "p", "s", "t", "w", "_", "-", "."}

Str_passwd == <<"p", "a", "s", "s", "w", "d">>

\* C13: the name secure_filename gives is non-empty, made of letters, digits,
\* underscore, hyphen and dot only, so without a separator; it is the name
\* the last path component alone gives, the name "image" when that component
\* holds no allowed character, and "passwd" for "../../etc/passwd".
C13_SecureFilename ==
    \A t \in Threads :
      th[t].path # <<>> =>
        LET fn == th[t].upload.filename
            base == AfterLastSlash(fn)
            safe == th[t].path[2]
        IN  /\ safe # <<>>
            /\ \A i \in 1..Len(safe) : safe[i] \in NameChars /\ safe[i] # "/"
            /\ base # <<>> => safe = secure_filename(base)
            /\ (\A i \in 1..Len(base) : base[i] \notin NameChars) =>
                 safe = Str_image
            /\ fn = Str_passwd_path => safe = Str_passwd

\* the traversal of the example stored under the name "passwd"
C13_Witness ==
    \E t \in Threads :
      /\ th[t].pc = "done" /\ th[t].status = 200
      /\ th[t].upload.filename = Str_passwd_path
      /\ th[t].path # <<>>
      /\ th[t].path \in DOMAIN files

----------------------------------------------------------------------------
(* Properties of the product fields (SpecUpload) *)

ProductForms == {"create_product", "update_product"}

\* request r is past its call of validate_product_fields
Validated(r) == r.op \in ProductForms /\ r.authorized /\ r.pc # "validate"

\* C14: every product row has a price in 1..1000000; a form with a name is
\* accepted exactly when its price is one of 1..1000000, and a form with
\* another price ends in 400 with every row as it was.
C14_PriceRange ==
    /\ \A id \in DOMAIN products : products[id].price \in 1..1000000
    /\ \A t \in Threads :
         Validated(th[t]) =>
           LET r == th[t] IN
             /\ Strip(r.name) # <<>> =>
                  (r.clean.ok <=> r.price \in 1..1000000)
             /\ r.clean.ok => r.clean.price = r.price
             /\ r.price \notin 1..1000000 =>
                  /\ r.status = 400 /\ r.pc = "done"
                  /\ products = r.p0

\* an update of a stored product with the price 1000001, refused
C14_Witness ==
    \E t \in Threads :
      /\ Validated(th[t]) /\ th[t].op = "update_product"
      /\ th[t].product_id \in DOMAIN products
      /\ th[t].price = 1000001
      /\ th[t].status = 400
      /\ th[t].detail = "Price must be between 1 and 1,000,000."

----------------------------------------------------------------------------
(* Properties of logout and of expiry (Spec) *)

LogoutDone(t) == th[t].pc = "done" /\ th[t].op = "admin_logout"

\* C15: admin_logout answers success under every cookie; the store it leaves
\* is the store it found less the cookie's token, every other session with
\* its issue time, so a logout whose token is not stored changes nothing.
C15_LogoutIdempotent ==
    \A t \in Threads :
      LogoutDone(t) =>
        LET r == th[t] IN
          /\ r.status = 200
          /\ DOMAIN admin_sessions = DOMAIN r.s0 \ {r.cookie}
          /\ \A k \in DOMAIN admin_sessions : admin_sessions[k] = r.s0[k]
          /\ r.cookie \notin DOMAIN r.s0 => admin_sessions = r.s0

\* an expired token logged out while another session stays in the store
C15_Witness ==
    \E t \in Threads :
      /\ LogoutDone(t)
      /\ th[t].cookie \in DOMAIN th[t].s0
      /\ th[t].t0 - th[t].s0[th[t].cookie] > SESSION_AGE
      /\ admin_sessions # EmptyDict

----------------------------------------------------------------------------
(* Properties of an update without a file (SpecUpdate) *)

UpdateDone(t) ==
    /\ th[t].pc = "done" /\ th[t].op = "update_product"
    /\ ~th[t].has_image

\* C16: an update_product without a file writes no file, leaves every row's
\* image and every other row as they were, and when it succeeds on a stored
\* product gives that row the cleaned name, price and description.
C16_UpdateKeepsImage ==
    \A t \in Threads :
      UpdateDone(t) =>
        LET r == th[t] IN
          /\ files = r.f0
          /\ DOMAIN products = DOMAIN r.p0
          /\ \A id \in DOMAIN products :
               /\ products[id].image = r.p0[id].image
               /\ id # r.product_id => products[id] = r.p0[id]
          /\ (r.status = 200 /\ r.product_id \in DOMAIN products) =>
               products[r.product_id] =
                 [name |-> Strip(r.name), price |-> r.price,
                  description |-> Strip(r.description),
                  image |-> r.p0[r.product_id].image]

\* one of two products with different images renamed and repriced
C16_Witness ==
    \E t \in Threads :
      /\ UpdateDone(t) /\ th[t].status = 200
      /\ th[t].product_id \in DOMAIN products
      /\ products[th[t].product_id] # th[t].p0[th[t].product_id]
      /\ products[th[t].product_id].image # <<>>
      /\ \E other \in DOMAIN products :
           products[other].image # products[th[t].product_id].image

----------------------------------------------------------------------------
(* Properties of get_db (SpecUpload) *)

\* C17: a request that entered get_db ends with cursor and connection closed
\* once, committed exactly when the block raised nothing, rolled back with the
\* exception as its answer and the rows as they were otherwise; no
\* connection outlives its request.
C17_Transaction ==
    \A t \in Threads :
      LET r == th[t] IN
        /\ r.closes <= 1
        /\ r.conn = "open" => r.pc \notin {"idle", "done"}
        /\ (r.pc = "done" /\ ~r.db_used) => r.conn = "none" /\ r.tx = "none"
        /\ (r.pc = "done" /\ r.db_used) =>
             /\ r.closes = 1 /\ r.conn = "closed"
             /\ r.tx \in {"committed", "rolledback"}
             /\ r.tx = "committed" <=> r.detail = ""
             /\ r.tx = "committed" => r.status = 200
             /\ r.tx = "rolledback" =>
                  /\ r.status = 400
                  /\ products = r.p0

\* an update of a stored product whose upload was refused inside the block
C17_Witness ==
    \E t \in Threads :
      /\ th[t].pc = "done" /\ th[t].op = "update_product"
      /\ th[t].has_image /\ th[t].product_id \in DOMAIN products
      /\ th[t].tx = "rolledback" /\ th[t].closes = 1
      /\ th[t].detail = "Image too large. Max size is 5 MB."

\* what require_admin answers on an expired and on a removed token
EvictionAnswers ==
    \A t \in Threads :
      AdminDone(t) =>
        LET r == th[t]
            tok == r.cookie
        IN  /\ (tok \in DOMAIN r.s0 /\ r.t0 - r.s0[tok] > SESSION_AGE) =>
                 /\ Refused(r, "Session expired")
                 /\ DOMAIN admin_sessions = DOMAIN r.s0 \ {tok}
            /\ (tok \in issued /\ tok \notin DOMAIN r.s0) =>
                 Refused(r, "Unauthorized")

\* an expired token leaves the store only in a step at one of the places
\* named, taken by a request that carries the token
RemovedOnlyAt(places) ==
    \A tok \in DOMAIN admin_sessions :
      (now - admin_sessions[tok] > SESSION_AGE
         /\ tok \notin DOMAIN admin_sessions') =>
        \E t \in Threads : th[t].cookie = tok /\ th[t].pc \in places

\* C18 as stated: an expired token stays in the store until a require_admin
\* call looks it up; that call answers Session expired and removes it, and
\* every later call with it answers Unauthorized.
C18_AsStated ==
    []EvictionAnswers /\ [][RemovedOnlyAt({"ra_evict"})]_vars

\* C18: an expired token stays in the store until a require_admin call looks
\* it up or an admin_logout that carries it removes it; the require_admin
\* call answers Session expired and removes it, and every later call with it
\* answers Unauthorized.
C18_LazyEviction ==
    []EvictionAnswers /\ [][RemovedOnlyAt({"ra_evict", "lo_pop"})]_vars

\* a token that was evicted, not revoked, answered Unauthorized
C18_Witness ==
    \E t \in Threads :
      /\ AdminDone(t)
      /\ th[t].cookie \in issued \ (DOMAIN th[t].s0 \cup revoked)
      /\ th[t].detail = "Unauthorized"

\* an admin request with a valid session leaves the store as it found it;
\* one whose token is older than 7 days is not accepted
ValidationReadsOnly ==
    \A t \in Threads :
      th[t].op \in AdminOps =>
        LET r == th[t] IN
          /\ ValidSession(r) => admin_sessions = r.s0
          /\ (r.pc = "done" /\ ValidSession(r)) => r.authorized
          /\ (r.pc = "done" /\ r.cookie \in DOMAIN r.s0
                /\ r.t0 - r.s0[r.cookie] > SESSION_AGE) => ~r.authorized

\* no step changes the issue time of a token that stays in the store
IssueTimesKept ==
    \A tok \in DOMAIN admin_sessions \cap DOMAIN admin_sessions' :
      admin_sessions'[tok] = admin_sessions[tok]

\* C19: require_admin on a stored, unexpired token leaves the session store
\* unchanged; a token's issue time is the time of its login for as long as it
\* is stored, so it stops being accepted more than 7 days after the login.
C19_NoRefresh == []ValidationReadsOnly /\ [][IssueTimesKept]_vars

\* a token accepted 7 days after its login, its issue time still the login's
C19_Witness ==
    \E t \in Threads :
      /\ AdminDone(t) /\ th[t].authorized
      /\ th[t].t0 - th[t].s0[th[t].cookie] = SESSION_AGE
      /\ admin_sessions[th[t].cookie] = th[t].s0[th[t].cookie]

----------------------------------------------------------------------------
(* Properties of a rate-limited client (SpecLimiter) *)

\* C20: a login made more than 15 minutes after the oldest attempt recorded
\* for its client reaches the password comparison, refused attempts before
\* it or not; an attempt answered 429 adds no timestamp, and is answered so
\* only while the oldest recorded attempt is at most 15 minutes old.
C20_NoPermanentLockout ==
    \A t \in Threads :
      LoginDone(t) =>
        LET r == th[t]
            h == r.h0[r.client]
            after == login_attempts[r.client]
        IN  /\ (h # <<>> /\ r.t0 - Head(h) > LOGIN_WINDOW_SECONDS) =>
                 r.pw_compared /\ r.status # 429
            /\ r.status = 429 =>
                 /\ r.client \in limited
                 /\ after # <<>>
                 /\ r.t0 - Head(after) <= LOGIN_WINDOW_SECONDS
                 /\ \A i \in 1..Len(after) : \E j \in 1..Len(h) : after[i] = h[j]

\* a client that was answered 429 is let through once its oldest recorded
\* attempt is more than 15 minutes old
C20_Witness ==
    \E t \in Threads :
      /\ LoginDone(t) /\ th[t].pw_compared
      /\ th[t].client \in th[t].l0
      /\ th[t].h0[th[t].client] # <<>>
      /\ th[t].t0 - Head(th[t].h0[th[t].client]) > LOGIN_WINDOW_SECONDS

----------------------------------------------------------------------------
(* Properties of the shared maps under concurrent requests *)

\* C5: a require_admin that runs beside a logout or another require_admin on
\* the same token ends as some order of the two would end it: accepted, 401
\* Unauthorized or 401 Session expired, never an unhandled error.
C5_Linearizable ==
    \A t \in Threads :
      AdminDone(t) =>
        \/ th[t].authorized /\ th[t].status = 200
        \/ Refused(th[t], "Unauthorized")
        \/ Refused(th[t], "Session expired")

\* C6: under every interleaving of checks for one client the history never
\* holds more than 5 entries and no check fails other than with 429.
C6_MutualExclusion ==
    /\ \A c \in Clients : Len(login_attempts[c]) <= MAX_LOGIN_ATTEMPTS
    /\ \A t \in Threads :
         (th[t].op = "admin_login" /\ th[t].pc = "done") =>
           th[t].status \in {401, 429}

====
